---- MODULE Spec2Model ----
(***************************************************************************)
(* Model of pytest_helm_charts/clusters.py: the ExistingCluster handle    *)
(* (create / destroy), its kubectl command with the decoding of the       *)
(* result, and the port_forward context manager, which spawns "kubectl    *)
(* port-forward" child processes in a bounded retry loop.                 *)
(***************************************************************************)
EXTENDS Integers, Sequences, FiniteSets, TLC

VARIABLES
    kube_config_path,   \* ExistingCluster.kube_config_path, written by __init__
    kubeconfig_path,    \* ExistingCluster.kubeconfig_path, the attribute the commands read
    kubectl_path,       \* ExistingCluster.kubectl_path
    kube_client,        \* Cluster._kube_client: None or the id of an HTTPClient
    sessions,           \* sessions[k]: how often session.close() ran on client k
    calls,              \* the create/destroy calls made on the handle, in order
    kc,                 \* the frame of a kubectl call: arguments, command line, result
    pf,                 \* pf[c]: the frame of caller c's port_forward invocation
    procs               \* every child process spawned so far (the OS side)

vars == <<kube_config_path, kubeconfig_path, kubectl_path, kube_client,
          sessions, calls, kc, pf, procs>>

clusterVars == <<kube_client, sessions, calls>>
forwardVars == <<pf, procs>>
attrVars == <<kube_config_path, kubeconfig_path, kubectl_path>>

----------------------------------------------------------------------------
(* Bounds of the model *)

MaxRetries == 2     \* retries is drawn from -1 .. MaxRetries
MaxCalls == 5       \* create/destroy calls made on one handle

(* Program constants *)

RandLo == 5000      \* random.randrange(5000, 30000)
RandHi == 30000

(* Python values *)

None == -1                  \* None where the other values are non-negative integers
Unbound == -2               \* a local variable that was declared but never assigned
NoneStr == "<None>"         \* None where the other values are strings
NoAttr == "<no attribute>"  \* an instance attribute that was never assigned

(* Inputs *)

KubeConfigPaths == {"", "/kube.config"}
Targets == {NoneStr, "", "svc/my-service"}
RemotePorts == {None, 8080}
LocalPorts == {None, 0, 9000}
RetriesSet == -1 .. MaxRetries
RandomPorts == {RandLo, RandHi - 1}    \* values randrange(RandLo, RandHi) can return
ExitCodes == {0, 1}
Callers == {1}

NoErr == [kind |-> "none", code |-> None]

\* Truthiness of an int-or-None value: None and 0 are falsy.
TruthyInt(v) == v # None /\ v # 0

\* Truthiness of a str value: the empty string is falsy.
TruthyStr(s) == s # "" /\ s # NoneStr

(* JSON values as json.loads returns them. A str or an int carries its
   characters; a list carries its elements; a dict carries its members. *)

ITEMS == <<"i", "t", "e", "m", "s">>

JInt(cs) == [kind |-> "int", chars |-> cs, elems |-> <<>>, members |-> <<>>]
JStr(cs) == [kind |-> "str", chars |-> cs, elems |-> <<>>, members |-> <<>>]
JList(es) == [kind |-> "list", chars |-> <<>>, elems |-> es, members |-> <<>>]
JDict(ms) == [kind |-> "dict", chars |-> <<>>, elems |-> <<>>, members |-> ms]
NoValue == [kind |-> "none", chars |-> <<>>, elems |-> <<>>, members |-> <<>>]

OneTwoThree == JList(<<JInt(<<"1">>), JInt(<<"2">>), JInt(<<"3">>)>>)

\* What the command prints, with the value json.loads gives for it.
Outputs ==
    { [text |-> "{\"items\": [1, 2, 3]}",
       value |-> JDict(<<[key |-> ITEMS, val |-> OneTwoThree]>>)],
      [text |-> "{\"a\": 1}",
       value |-> JDict(<<[key |-> <<"a">>, val |-> JInt(<<"1">>)]>>)],
      [text |-> "[1, 2, 3]", value |-> OneTwoThree],
      [text |-> "[\"items\"]", value |-> JList(<<JStr(ITEMS)>>)],
      [text |-> "\"ok\"", value |-> JStr(<<"o", "k">>)],
      [text |-> "\"2 items\"", value |-> JStr(<<"2", " ">> \o ITEMS)],
      [text |-> "5", value |-> JInt(<<"5">>)] }

Namespaces == {NoneStr, "default"}
OutputFormats == {"json", "yaml", ""}
Inputs == {"", "kind: Pod"}

IdleKubectl ==
    [pc |-> "idle", namespace |-> NoneStr, output |-> "", input |-> "",
     command |-> "", options |-> {}, stdout |-> "",
     result |-> [type |-> "none", text |-> "", value |-> NoValue],
     err |-> NoErr]

IdleFrame ==
    [pc |-> "idle", service_or_pod_name |-> NoneStr, remote_port |-> None,
     local_port |-> None, retries |-> 0, command |-> "", options |-> {},
     i |-> 0, port_to_use |-> Unbound, proc |-> None, returncode |-> None,
     err |-> NoErr, yielded |-> None, scope |-> "none"]

----------------------------------------------------------------------------
(* Cluster.__init__ / ExistingCluster.__init__ *)

Init ==
    /\ kube_config_path \in KubeConfigPaths
    /\ kubeconfig_path = NoAttr
    /\ kubectl_path = "/usr/local/bin/kubectl"
    /\ kube_client = None
    /\ sessions = <<>>
    /\ calls = <<>>
    /\ kc = IdleKubectl
    /\ pf = [c \in Callers |-> IdleFrame]
    /\ procs = <<>>

\* Client code (or a subclass) assigning the attribute that kubectl and
\* port_forward read; no method of the class assigns it.
SetKubeconfigPath ==
    /\ kubeconfig_path = NoAttr
    /\ \A c \in DOMAIN pf : pf[c].pc = "idle"
    /\ kubeconfig_path' \in KubeConfigPaths
    /\ UNCHANGED <<kc, kube_config_path, kubectl_path, clusterVars, forwardVars>>

----------------------------------------------------------------------------
(* ExistingCluster.create / ExistingCluster.destroy *)

Call(op, outcome) == [op |-> op, outcome |-> outcome]

\* create without the assignment of line 57: the client is returned only.
create_NotStored ==
    /\ Len(calls) < MaxCalls
    /\ sessions' = Append(sessions, 0)
    /\ kube_client' = kube_client
    /\ calls' = Append(calls, Call("create", "ok"))
    /\ UNCHANGED <<kc, attrVars, forwardVars>>

\* Lines 55-58: a new HTTPClient, with a session of its own, replaces whatever
\* _kube_client held. KubeConfig.from_file is taken to find its file.
create ==
    /\ Len(calls) < MaxCalls
    /\ sessions' = Append(sessions, 0)
    /\ kube_client' = Len(sessions) + 1
    /\ calls' = Append(calls, Call("create", "ok"))
    /\ UNCHANGED <<kc, attrVars, forwardVars>>

\* destroy without line 64: the closed client stays in _kube_client.
destroy_KeepsClient ==
    /\ Len(calls) < MaxCalls
    /\ IF kube_client = None
       THEN UNCHANGED <<kube_client, sessions>>
       ELSE /\ sessions' = [sessions EXCEPT ![kube_client] = @ + 1]
            /\ kube_client' = kube_client
    /\ calls' = Append(calls, Call("destroy", "ok"))
    /\ UNCHANGED <<kc, attrVars, forwardVars>>

\* Lines 60-64: nothing to do without a client; otherwise close the client's
\* session and forget the client.
destroy ==
    /\ Len(calls) < MaxCalls
    /\ IF kube_client = None
       THEN UNCHANGED <<kube_client, sessions>>
       ELSE /\ sessions' = [sessions EXCEPT ![kube_client] = @ + 1]
            /\ kube_client' = None
    /\ calls' = Append(calls, Call("destroy", "ok"))
    /\ UNCHANGED <<kc, attrVars, forwardVars>>

NextCluster == create \/ destroy

SpecCluster == Init /\ [][NextCluster]_vars

----------------------------------------------------------------------------
(* ExistingCluster.kubectl *)

\* json.loads on the outputs above.
json_loads(text) == (CHOOSE o \in Outputs : o.text = text).value

\* "needle in v" raises TypeError unless v is a container or a str.
InRaises(v) == v.kind \notin {"dict", "list", "str"}

\* "needle in v" for a str needle: a key of a dict, an element of a list, a
\* substring of a str.
In(needle, v) ==
    CASE v.kind = "dict" ->
            \E m \in 1 .. Len(v.members) : v.members[m].key = needle
      [] v.kind = "list" ->
            \E e \in 1 .. Len(v.elems) :
                v.elems[e].kind = "str" /\ v.elems[e].chars = needle
      [] v.kind = "str" ->
            \E k \in 0 .. Len(v.chars) - Len(needle) :
                SubSeq(v.chars, k + 1, k + Len(needle)) = needle
      [] OTHER -> FALSE

\* v[key] for a str key: only a dict can be indexed that way.
GetItemRaises(v) == v.kind # "dict"

GetItem(v, key) ==
    v.members[CHOOSE m \in 1 .. Len(v.members) : v.members[m].key = key].val

Returned(type, text, value) ==
    [pc |-> "returned", result |-> [type |-> type, text |-> text, value |-> value],
     err |-> NoErr]

Raised(kind) ==
    [pc |-> "raised", result |-> [type |-> "none", text |-> "", value |-> NoValue],
     err |-> [kind |-> kind, code |-> None]]

\* Lines 131-136: what kubectl makes of the command's output.
Decode(output, text) ==
    IF output = "json"
    THEN LET output_json == json_loads(text) IN
         IF InRaises(output_json) THEN Raised("TypeError")
         ELSE IF In(ITEMS, output_json)
              THEN IF GetItemRaises(output_json) THEN Raised("TypeError")
                   ELSE Returned("value", "", GetItem(output_json, ITEMS))
              ELSE Returned("value", "", json_loads(text))
    ELSE Returned("text", text, NoValue)

\* Lines 106-115: the options built from the arguments and the handle.
KubectlOptions(namespace, output, input) ==
    (IF TruthyStr(namespace) THEN {<<"namespace", namespace>>} ELSE {})
    \cup (IF TruthyStr(output) THEN {<<"output", output>>} ELSE {})
    \cup (IF TruthyStr(kubeconfig_path)
          THEN {<<"kubeconfig", kubeconfig_path>>} ELSE {})
    \cup (IF TruthyStr(input) THEN {<<"filename", "-">>} ELSE {})

\* Lines 79-136: one kubectl call. Reading self.kubeconfig_path raises
\* AttributeError when the attribute was never assigned; check_output raises
\* CalledProcessError when the command exits non-zero.
kubectl ==
    \E namespace \in Namespaces, output \in OutputFormats, input \in Inputs,
       o \in Outputs, exit \in ExitCodes :
        LET args == [kc EXCEPT !.namespace = namespace, !.output = output,
                               !.input = input]
            ran == [args EXCEPT !.command = IF TruthyStr(kubectl_path)
                                            THEN kubectl_path ELSE "kubectl",
                                !.options = KubectlOptions(namespace, output, input)]
            end == IF kubeconfig_path = NoAttr THEN Raised("AttributeError")
                   ELSE IF exit # 0 THEN Raised("CalledProcessError")
                   ELSE Decode(output, o.text)
        IN
        /\ kc.pc = "idle"
        /\ kc' = [(IF kubeconfig_path = NoAttr THEN args
                   ELSE IF exit # 0 THEN ran
                   ELSE [ran EXCEPT !.stdout = o.text])
                  EXCEPT !.pc = end.pc, !.result = end.result, !.err = end.err]
        /\ UNCHANGED <<attrVars, clusterVars, forwardVars>>

NextKubectl == SetKubeconfigPath \/ kubectl

SpecKubectl == Init /\ [][NextKubectl]_vars

----------------------------------------------------------------------------
(* The child processes *)

\* "if proc: proc.kill()": SIGKILL to the child held in proc, if any. A Popen
\* object is always truthy, so only None skips the kill; killing a child that
\* has already exited changes nothing but is recorded as a kill() call.
KillIfProc(ps, p) ==
    IF p = None THEN ps
    ELSE [ps EXCEPT ![p].alive = FALSE, ![p].killed = TRUE]

Owned(c) == {p \in 1 .. Len(procs) : procs[p].owner = c}
LiveProcs(c) == {p \in Owned(c) : procs[p].alive}

\* The forwarding process ends on its own (bind failure, lost connection).
Exit(p, code) ==
    /\ procs[p].alive
    /\ procs' = [procs EXCEPT ![p].alive = FALSE, ![p].exitcode = code]
    /\ UNCHANGED <<kc, attrVars, clusterVars, pf>>

ProcExit == \E p \in 1 .. Len(procs), code \in ExitCodes : Exit(p, code)

----------------------------------------------------------------------------
(* ExistingCluster.port_forward *)

\* Lines 156-168: entering the generator. Reading self.kubeconfig_path raises
\* AttributeError when the attribute was never assigned.
Enter(c, target, remote, local, n) ==
    /\ pf[c].pc = "idle"
    /\ pf' = [pf EXCEPT ![c] =
            IF kubeconfig_path = NoAttr
            THEN [@ EXCEPT !.pc = "raised",
                           !.service_or_pod_name = target,
                           !.remote_port = remote,
                           !.local_port = local,
                           !.retries = n,
                           !.err = [kind |-> "AttributeError", code |-> None]]
            ELSE [@ EXCEPT !.pc = "loop",
                           !.service_or_pod_name = target,
                           !.remote_port = remote,
                           !.local_port = local,
                           !.retries = n,
                           !.command = IF TruthyStr(kubectl_path)
                                       THEN kubectl_path ELSE "kubectl",
                           !.options = IF TruthyStr(kubeconfig_path)
                                       THEN {<<"kubeconfig", kubeconfig_path>>}
                                       ELSE {},
                           !.i = 0,
                           !.proc = None]]
    /\ UNCHANGED <<kc, attrVars, clusterVars, procs>>

port_forward(c) ==
    \E target \in Targets, remote \in RemotePorts,
       local \in LocalPorts, n \in RetriesSet :
        Enter(c, target, remote, local, n)

\* The argument vector handed to subprocess.Popen (lines 177-184).
Argv(f, port) ==
    [command |-> f.command, options |-> f.options, subcommand |-> "port-forward",
     target |-> f.service_or_pod_name, local |-> port, remote |-> f.remote_port]

NewProc(c, f, port) ==
    [owner |-> c, attempt |-> f.i, argv |-> Argv(f, port), alive |-> TRUE,
     exitcode |-> None, killed |-> FALSE, polled |-> "no", probed |-> "no"]

\* PortChoices with random.randint(5000, 30000), whose upper end is included.
PortChoices_Inclusive(local) ==
    IF TruthyInt(local) THEN {local} ELSE {RandLo, RandHi}

\* Line 175: local_port or random.randrange(5000, 30000)
PortChoices(local) == IF TruthyInt(local) THEN {local} ELSE RandomPorts

\* Spawn with the child handle kept on the cluster object (self.proc) and so
\* shared by all invocations: the kill hits the child spawned last by anyone.
Spawn_SharedHandle(c) ==
    LET f == pf[c] IN
    /\ f.pc = "loop"
    /\ f.i < f.retries
    /\ \E port \in PortChoices(f.local_port) :
        LET killed == KillIfProc(procs, IF procs = <<>> THEN None ELSE Len(procs)) IN
        IF f.service_or_pod_name = NoneStr
        THEN /\ procs' = killed
             /\ pf' = [pf EXCEPT ![c].pc = "raised",
                                 ![c].port_to_use = port,
                                 ![c].err = [kind |-> "TypeError", code |-> None]]
        ELSE /\ procs' = Append(killed, NewProc(c, f, port))
             /\ pf' = [pf EXCEPT ![c].pc = "sleep",
                                 ![c].port_to_use = port,
                                 ![c].proc = Len(procs) + 1]
    /\ UNCHANGED <<kc, attrVars, clusterVars>>

\* Spawn without lines 172-173: the previous child is left running.
Spawn_NoKill(c) ==
    LET f == pf[c] IN
    /\ f.pc = "loop"
    /\ f.i < f.retries
    /\ \E port \in PortChoices(f.local_port) :
        IF f.service_or_pod_name = NoneStr
        THEN /\ procs' = procs
             /\ pf' = [pf EXCEPT ![c].pc = "raised",
                                 ![c].port_to_use = port,
                                 ![c].err = [kind |-> "TypeError", code |-> None]]
        ELSE /\ procs' = Append(procs, NewProc(c, f, port))
             /\ pf' = [pf EXCEPT ![c].pc = "sleep",
                                 ![c].port_to_use = port,
                                 ![c].proc = Len(procs) + 1]
    /\ UNCHANGED <<kc, attrVars, clusterVars>>

\* Lines 171-190: one more iteration of "for i in range(retries)": kill the
\* previous child, pick the port, spawn. Popen raises TypeError for an
\* argument that is None, before any fork.
Spawn(c) ==
    LET f == pf[c] IN
    /\ f.pc = "loop"
    /\ f.i < f.retries
    /\ \E port \in PortChoices(f.local_port) :
        LET killed == KillIfProc(procs, f.proc) IN
        IF f.service_or_pod_name = NoneStr
        THEN /\ procs' = killed
             /\ pf' = [pf EXCEPT ![c].pc = "raised",
                                 ![c].port_to_use = port,
                                 ![c].err = [kind |-> "TypeError", code |-> None]]
        ELSE /\ procs' = Append(killed, NewProc(c, f, port))
             /\ pf' = [pf EXCEPT ![c].pc = "sleep",
                                 ![c].port_to_use = port,
                                 ![c].proc = Len(procs) + 1]
    /\ UNCHANGED <<kc, attrVars, clusterVars>>

\* Poll with "if returncode:" for "if returncode is not None:": exit code 0
\* passes for a running child.
Poll_Truthy(c) ==
    LET f == pf[c]
        p == f.proc
        rc == IF procs[p].alive THEN None ELSE procs[p].exitcode
    IN
    /\ f.pc = "sleep"
    /\ procs' = [procs EXCEPT ![p].polled = IF rc = None THEN "running" ELSE "exited"]
    /\ pf' = [pf EXCEPT ![c] =
            IF TruthyInt(rc)
            THEN IF f.i >= f.retries - 1
                 THEN [@ EXCEPT !.pc = "raised", !.returncode = rc,
                                !.err = [kind |-> "exited", code |-> rc]]
                 ELSE [@ EXCEPT !.pc = "loop", !.returncode = rc, !.i = f.i + 1]
            ELSE [@ EXCEPT !.pc = "probe", !.returncode = rc]]
    /\ UNCHANGED <<kc, attrVars, clusterVars>>

\* Lines 191-200: after the sleep, proc.poll(); an exited child fails the
\* attempt, and the last attempt's failure raises.
Poll(c) ==
    LET f == pf[c]
        p == f.proc
        rc == IF procs[p].alive THEN None ELSE procs[p].exitcode
    IN
    /\ f.pc = "sleep"
    /\ procs' = [procs EXCEPT ![p].polled = IF rc = None THEN "running" ELSE "exited"]
    /\ pf' = [pf EXCEPT ![c] =
            IF rc # None
            THEN IF f.i >= f.retries - 1
                 THEN [@ EXCEPT !.pc = "raised", !.returncode = rc,
                                !.err = [kind |-> "exited", code |-> rc]]
                 ELSE [@ EXCEPT !.pc = "loop", !.returncode = rc, !.i = f.i + 1]
            ELSE [@ EXCEPT !.pc = "probe", !.returncode = rc]]
    /\ UNCHANGED <<kc, attrVars, clusterVars>>

\* Probe with a bare "except: pass": the last attempt's failure is swallowed too.
Probe_NeverRaises(c) ==
    LET f == pf[c] IN
    /\ f.pc = "probe"
    /\ \E ok \in BOOLEAN :
        /\ procs' = [procs EXCEPT ![f.proc].probed = IF ok THEN "ok" ELSE "fail"]
        /\ pf' = [pf EXCEPT ![c].pc = "loop", ![c].i = f.i + 1]
    /\ UNCHANGED <<kc, attrVars, clusterVars>>

\* Lines 204-209: the TCP connect to 127.0.0.1:port_to_use. A failure is
\* re-raised on the last attempt only; after a success, or a swallowed
\* failure, control falls to the end of the loop body and the loop goes on.
Probe(c) ==
    LET f == pf[c] IN
    /\ f.pc = "probe"
    /\ \E ok \in BOOLEAN :
        /\ procs' = [procs EXCEPT ![f.proc].probed = IF ok THEN "ok" ELSE "fail"]
        /\ pf' = [pf EXCEPT ![c] =
                IF ~ok /\ f.i >= f.retries - 1
                THEN [@ EXCEPT !.pc = "raised",
                               !.err = [kind |-> "ConnectionError", code |-> None]]
                ELSE [@ EXCEPT !.pc = "loop", !.i = f.i + 1]]
    /\ UNCHANGED <<kc, attrVars, clusterVars>>

\* Yield with port_to_use initialised to local_port before the loop: with no
\* iteration there is a value to yield.
Yield_Initialised(c) ==
    LET f == pf[c] IN
    /\ f.pc = "loop"
    /\ f.i >= f.retries
    /\ procs' = procs
    /\ pf' = [pf EXCEPT ![c].pc = "live",
                        ![c].yielded = IF f.port_to_use = Unbound
                                       THEN f.local_port ELSE f.port_to_use]
    /\ UNCHANGED <<kc, attrVars, clusterVars>>

\* Lines 211-212: the range is exhausted; "yield port_to_use" inside try.
\* With no iteration port_to_use is unbound: UnboundLocalError, and the
\* finally clause runs on the way out.
Yield(c) ==
    LET f == pf[c] IN
    /\ f.pc = "loop"
    /\ f.i >= f.retries
    /\ IF f.port_to_use = Unbound
       THEN /\ procs' = KillIfProc(procs, f.proc)
            /\ pf' = [pf EXCEPT ![c].pc = "raised",
                                ![c].err = [kind |-> "UnboundLocalError", code |-> None]]
       ELSE /\ procs' = procs
            /\ pf' = [pf EXCEPT ![c].pc = "live", ![c].yielded = f.port_to_use]
    /\ UNCHANGED <<kc, attrVars, clusterVars>>

\* ScopeExit without try/finally: the kill runs after a normal return only.
ScopeExit_NoFinally(c, how) ==
    /\ pf[c].pc = "live"
    /\ procs' = IF how = "return" THEN KillIfProc(procs, pf[c].proc) ELSE procs
    /\ pf' = [pf EXCEPT ![c].pc = "done", ![c].scope = how]
    /\ UNCHANGED <<kc, attrVars, clusterVars>>

\* Lines 213-215: the caller's with-block ends, by return or by an error
\* thrown into the generator; the finally clause kills the child.
ScopeExit(c, how) ==
    /\ pf[c].pc = "live"
    /\ procs' = KillIfProc(procs, pf[c].proc)
    /\ pf' = [pf EXCEPT ![c].pc = "done", ![c].scope = how]
    /\ UNCHANGED <<kc, attrVars, clusterVars>>

Next ==
    \/ SetKubeconfigPath
    \/ ProcExit
    \/ \E c \in DOMAIN pf : port_forward(c)
    \/ \E c \in DOMAIN pf : Spawn(c)
    \/ \E c \in DOMAIN pf : Poll(c)
    \/ \E c \in DOMAIN pf : Probe(c)
    \/ \E c \in DOMAIN pf : Yield(c)
    \/ \E c \in DOMAIN pf, how \in {"return", "error"} : ScopeExit(c, how)

Spec == Init /\ [][Next]_vars

----------------------------------------------------------------------------
(* Two port_forward invocations on one handle, running concurrently (two
   threads, or two generators advanced in turn) with different explicit
   local ports. *)

ConcCallers == {1, 2}
ConcLocalPorts == {9000, 9001}
ConcRetries == {2}
ConcExitCodes == {1}

InitConc ==
    /\ kube_config_path = "/kube.config"
    /\ kubeconfig_path = NoAttr
    /\ kubectl_path = "/usr/local/bin/kubectl"
    /\ kube_client = None
    /\ sessions = <<>>
    /\ calls = <<>>
    /\ kc = IdleKubectl
    /\ pf = [c \in ConcCallers |-> IdleFrame]
    /\ procs = <<>>

port_forward_conc(c) ==
    \E local \in ConcLocalPorts, n \in ConcRetries :
        /\ \A d \in DOMAIN pf \ {c} : pf[d].local_port # local
        /\ Enter(c, "svc/my-service", 8080, local, n)

ProcExitConc == \E p \in 1 .. Len(procs), code \in ConcExitCodes : Exit(p, code)

NextConc ==
    \/ SetKubeconfigPath
    \/ ProcExitConc
    \/ \E c \in DOMAIN pf : port_forward_conc(c)
    \/ \E c \in DOMAIN pf : Spawn(c)
    \/ \E c \in DOMAIN pf : Poll(c)
    \/ \E c \in DOMAIN pf : Probe(c)
    \/ \E c \in DOMAIN pf : Yield(c)
    \/ \E c \in DOMAIN pf, how \in {"return", "error"} : ScopeExit(c, how)

SpecConc == InitConc /\ [][NextConc]_vars

----------------------------------------------------------------------------
(* Properties *)

Finished(c) == pf[c].pc \in {"raised", "done"}

\* The request names a target and a remote port.
ValidRequest(c) ==
    TruthyStr(pf[c].service_or_pod_name) /\ pf[c].remote_port # None

\* Attempt p passed both checks of its iteration.
Verified(p) == procs[p].polled = "running" /\ procs[p].probed = "ok"

\* C1: once port_forward has yielded, the end of the caller's scope (by return
\* or by an error raised in the caller's code) kills the child it holds, and
\* afterwards no child of the invocation is alive.
C1_KilledOnScopeExit ==
    \A c \in DOMAIN pf :
        pf[c].pc = "done" =>
            /\ pf[c].proc # None
            /\ procs[pf[c].proc].killed
            /\ LiveProcs(c) = {}

\* A scope that ended by an error, whose child was still running until then.
C1_Witness ==
    \E c \in DOMAIN pf :
        /\ pf[c].pc = "done"
        /\ pf[c].scope = "error"
        /\ procs[pf[c].proc].exitcode = None

\* C2: when port_forward, called for a target and a remote port, ends with
\* the error of its final attempt (child exited early, or child running but
\* probe failed), no child of the invocation is still alive.
C2_CleanupOnFailure ==
    \A c \in DOMAIN pf :
        (/\ ValidRequest(c)
         /\ pf[c].pc = "raised"
         /\ pf[c].err.kind \in {"exited", "ConnectionError"})
            => LiveProcs(c) = {}

\* C3: at most one child of an invocation is alive, and it is the one the
\* invocation holds: every earlier attempt's child has been killed or has exited.
C3_AtMostOneAlive ==
    \A c \in DOMAIN pf :
        /\ Cardinality(LiveProcs(c)) <= 1
        /\ \A p \in LiveProcs(c) : p = pf[c].proc

\* A second attempt running after the first, still running, child was killed.
C3_Witness ==
    \E c \in DOMAIN pf : \E p \in Owned(c) :
        /\ procs[p].killed
        /\ procs[p].exitcode = None
        /\ procs[p].polled = "running"
        /\ LiveProcs(c) = {pf[c].proc}
        /\ pf[c].proc > p

\* C4: a yielded port is the local port of the child the invocation holds;
\* that child was running at its poll, its probe succeeded, and it has not
\* been killed by the invocation.
C4_YieldedPortVerified ==
    \A c \in DOMAIN pf :
        pf[c].pc = "live" =>
            /\ pf[c].proc # None
            /\ pf[c].yielded = procs[pf[c].proc].argv.local
            /\ Verified(pf[c].proc)
            /\ ~procs[pf[c].proc].killed

\* A port yielded after an earlier attempt had failed.
C4_Witness ==
    \E c \in DOMAIN pf :
        /\ pf[c].pc = "live"
        /\ Cardinality(Owned(c)) >= 2
        /\ pf[c].yielded = procs[pf[c].proc].argv.local

\* C5: for a request with a target and a remote port, the first attempt that
\* passes poll and probe is the last one: no further child is spawned, and its
\* child is not killed before the caller's scope has ended.
C5_StopsAtFirstSuccess ==
    \A c \in DOMAIN pf : \A p \in Owned(c) :
        (ValidRequest(c) /\ Verified(p)) =>
            /\ \A q \in Owned(c) : q <= p
            /\ procs[p].killed => pf[c].pc = "done"

\* C6: a request with a target and a remote port and retries = n >= 1, none
\* of whose attempts passes, ends with an error after exactly n spawns, and
\* never yields.
C6_ExactlyRetriesAttempts ==
    \A c \in DOMAIN pf :
        (/\ pf[c].pc \notin {"idle"}
         /\ pf[c].retries >= 1
         /\ ValidRequest(c)
         /\ \A p \in Owned(c) : ~Verified(p))
            => /\ pf[c].pc \notin {"live", "done"}
               /\ Finished(c) => Cardinality(Owned(c)) = pf[c].retries

\* C7: the error that ends an invocation at its final attempt is the
\* "exited" error, with that child's exit code, exactly when the child had
\* exited at its poll, and the connection error exactly when the child was
\* running at its poll and the connect failed.
C7_TerminalErrorKind ==
    \A c \in DOMAIN pf :
        LET p == pf[c].proc IN
        (pf[c].pc = "raised" /\ p # None /\ procs[p].attempt = pf[c].retries - 1)
            => /\ pf[c].err.kind \in {"exited", "ConnectionError"}
               /\ pf[c].err.kind = "exited" <=> procs[p].polled = "exited"
               /\ pf[c].err.kind = "exited" =>
                      (pf[c].err.code # None /\ pf[c].err.code = procs[p].exitcode)
               /\ pf[c].err.kind = "ConnectionError" <=>
                      (procs[p].polled = "running" /\ procs[p].probed = "fail")

\* The final attempt's child had exited with code 0 after an earlier attempt
\* had failed at its probe.
C7_Witness ==
    \E c \in DOMAIN pf :
        /\ pf[c].pc = "raised"
        /\ pf[c].err = [kind |-> "exited", code |-> 0]
        /\ \E p \in Owned(c) : procs[p].probed = "fail"

\* C8: a request without a target (None or empty) or without a remote port
\* spawns no child.
C8_InvalidRequestNoSpawn ==
    \A c \in DOMAIN pf :
        (~TruthyStr(pf[c].service_or_pod_name) \/ pf[c].remote_port = None)
            => Owned(c) = {}

\* C9: with an explicit local port (0 included), a target and a remote port,
\* every spawned command maps that local port, the probe goes to it and it is
\* the value yielded.
C9_ExplicitPortUsed ==
    \A c \in DOMAIN pf :
        (ValidRequest(c) /\ pf[c].local_port # None) =>
            /\ \A p \in Owned(c) : procs[p].argv.local = pf[c].local_port
            /\ pf[c].port_to_use \in {Unbound, pf[c].local_port}
            /\ pf[c].pc = "live" => pf[c].yielded = pf[c].local_port

\* C10: a destroy that directly follows a destroy, or that comes before any
\* create, changes nothing, closes no session and raises no error; no
\* client's session is closed more than once.
C10_DestroyIdempotent ==
    /\ [](\A k \in 1 .. Len(sessions) : sessions[k] <= 1)
    /\ [][(/\ Len(calls') = Len(calls) + 1
           /\ calls'[Len(calls')].op = "destroy"
           /\ (calls = <<>> \/ calls[Len(calls)].op = "destroy"))
          => /\ calls'[Len(calls')].outcome = "ok"
             /\ kube_client' = kube_client
             /\ sessions' = sessions]_vars

\* destroy, destroy after a create: the second destroy has run.
C10_Witness ==
    /\ Len(calls) >= 3
    /\ calls[Len(calls)].op = "destroy"
    /\ calls[Len(calls) - 1].op = "destroy"
    /\ calls[Len(calls) - 2].op = "create"
    /\ sessions[Len(sessions)] = 1

\* C11: whatever the command printed, kubectl returns: with output "json",
\* the value under "items" when the decoded value is a dict with that key and
\* the decoded value otherwise; with another output format, the text as it is.
C11_ResultDecoding ==
    kc.stdout # "" =>
        /\ kc.pc = "returned"
        /\ kc.result =
              IF kc.output # "json"
              THEN [type |-> "text", text |-> kc.stdout, value |-> NoValue]
              ELSE LET v == json_loads(kc.stdout) IN
                   [type |-> "value", text |-> "",
                    value |-> IF v.kind = "dict" /\ In(ITEMS, v)
                              THEN GetItem(v, ITEMS) ELSE v]

InRange(port) == RandLo <= port /\ port < RandHi

\* C12: without an explicit local port, the port of every attempt (in the
\* spawned command's mapping, probed, and yielded) lies in [5000, 30000).
C12_RandomPortInRange ==
    \A c \in DOMAIN pf :
        pf[c].local_port = None =>
            /\ \A p \in Owned(c) : InRange(procs[p].argv.local)
            /\ pf[c].port_to_use # Unbound => InRange(pf[c].port_to_use)
            /\ pf[c].pc = "live" => InRange(pf[c].yielded)

\* A yield of the largest port of the range after an attempt on the smallest.
C12_Witness ==
    \E c \in DOMAIN pf :
        /\ pf[c].local_port = None
        /\ pf[c].pc = "live"
        /\ pf[c].yielded = RandHi - 1
        /\ \E p \in Owned(c) : procs[p].argv.local = RandLo

\* C13: an attempt is polled after its spawn and probed after its poll, and
\* only if the poll found the child running; a child that had exited at the
\* poll is never probed and is never the one whose port is yielded.
C13_ProbeOnlyIfRunning ==
    \A c \in DOMAIN pf :
        /\ pf[c].pc = "sleep" =>
              (procs[pf[c].proc].polled = "no" /\ procs[pf[c].proc].probed = "no")
        /\ pf[c].pc = "probe" =>
              (procs[pf[c].proc].polled = "running" /\ procs[pf[c].proc].probed = "no")
        /\ \A p \in Owned(c) :
              /\ procs[p].probed # "no" => procs[p].polled = "running"
              /\ procs[p].polled = "exited" =>
                    ~(pf[c].pc \in {"live", "done"} /\ pf[c].proc = p)

\* A first attempt whose child had exited with code 0 at the poll, unprobed,
\* and a later attempt that was probed.
C13_Witness ==
    \E c \in DOMAIN pf : \E p, q \in Owned(c) :
        /\ procs[p].polled = "exited"
        /\ procs[p].exitcode = 0
        /\ procs[p].probed = "no"
        /\ q > p
        /\ procs[q].probed = "ok"

\* C14: with retries < 1 port_forward spawns nothing, never yields, and ends
\* with an error.
C14_NoRetriesRejected ==
    \A c \in DOMAIN pf :
        (pf[c].pc # "idle" /\ pf[c].retries < 1) =>
            /\ Owned(c) = {}
            /\ pf[c].pc \in {"loop", "raised"}
            /\ pf[c].pc = "loop" => ENABLED Yield(c)
            /\ pf[c].pc = "raised" => pf[c].err.kind # "none"

\* retries = 0 on a handle whose kubeconfig_path is set: the yield itself fails.
C14_Witness ==
    \E c \in DOMAIN pf :
        /\ pf[c].retries = 0
        /\ pf[c].pc = "raised"
        /\ pf[c].err.kind = "UnboundLocalError"

\* C15: the commands read the path the constructor stored: neither
\* port_forward nor kubectl fails on reading it, and with a non-empty path
\* every spawned command line carries --kubeconfig=<that path>.
C15_KubeconfigSupplied ==
    /\ kc.err.kind # "AttributeError"
    /\ \A c \in DOMAIN pf :
          /\ (ValidRequest(c) /\ pf[c].retries >= 1) =>
                pf[c].err.kind # "AttributeError"
          /\ TruthyStr(kube_config_path) =>
                \A p \in Owned(c) :
                    <<"kubeconfig", kube_config_path>> \in procs[p].argv.options

\* The attempts of caller c, in order, as the environment answered them.
OwnAttempts(c) ==
    LET mine(r) == r.owner = c IN SelectSeq(procs, mine)

\* The end of an invocation that runs alone with retries = n and gets the
\* answers obs: where it stops, with which error, after how many spawns.
RECURSIVE Alone(_, _, _)
Alone(n, obs, i) ==
    IF i >= n THEN [pc |-> "live", err |-> NoErr, spawns |-> i]
    ELSE IF obs[i + 1].polled = "exited"
         THEN IF i >= n - 1
              THEN [pc |-> "raised", spawns |-> i + 1,
                    err |-> [kind |-> "exited", code |-> obs[i + 1].exitcode]]
              ELSE Alone(n, obs, i + 1)
         ELSE IF obs[i + 1].probed = "fail" /\ i >= n - 1
              THEN [pc |-> "raised", spawns |-> i + 1,
                    err |-> [kind |-> "ConnectionError", code |-> None]]
              ELSE Alone(n, obs, i + 1)

SameAsAlone(c) ==
    (pf[c].pc \in {"live", "done", "raised"} /\ pf[c].err.kind # "AttributeError") =>
        LET a == Alone(pf[c].retries, OwnAttempts(c), 0) IN
        /\ a.pc = IF pf[c].pc = "done" THEN "live" ELSE pf[c].pc
        /\ a.err = pf[c].err
        /\ a.spawns = Cardinality(Owned(c))
        /\ a.pc = "live" => pf[c].yielded = pf[c].local_port

\* A step that kills child p is a step of p's owner, on the child it holds,
\* and leaves every other invocation's frame as it was.
KillsOwnOnly ==
    \A p \in 1 .. Len(procs) :
        (~procs[p].killed /\ procs'[p].killed) =>
            LET c == procs[p].owner IN
            /\ pf[c].proc = p
            /\ pf'[c] # pf[c]
            /\ \A d \in DOMAIN pf \ {c} : pf'[d] = pf[d]

\* C16: two invocations with different local ports, interleaved in any way:
\* each kills only children it spawned, and each ends where it would end
\* alone (same attempt count, same port or error).
C16_NoInterference ==
    /\ [](\A c \in DOMAIN pf : SameAsAlone(c))
    /\ [][KillsOwnOnly]_vars

\* Both invocations are over, and a spawn of caller 2 fell between the two
\* spawns of caller 1, whose first child was killed while running.
C16_Witness ==
    /\ \A c \in DOMAIN pf : Finished(c)
    /\ \E p, q, r \in 1 .. Len(procs) :
          /\ p < q /\ q < r
          /\ procs[p].owner = 1 /\ procs[q].owner = 2 /\ procs[r].owner = 1
          /\ procs[p].killed /\ procs[p].exitcode = None
    /\ pf[1].pc = "done"
    /\ pf[2].pc = "raised"

LastOp == IF calls = <<>> THEN "none" ELSE calls[Len(calls)].op

NumCreates == Cardinality({n \in 1 .. Len(calls) : calls[n].op = "create"})

\* C17: after a sequence of calls that ends with destroy, the session of
\* every client a create established has been closed.
C17_AllSessionsClosed ==
    LastOp = "destroy" => \A k \in 1 .. Len(sessions) : sessions[k] >= 1

\* C18: kube_client is None exactly when no create has been called or the
\* last call was destroy; otherwise it is the client of the most recent
\* create, whose session the handle has not closed.
C18_KubeClientTracksCalls ==
    /\ kube_client = None <=> LastOp \in {"none", "destroy"}
    /\ kube_client # None =>
          /\ kube_client = NumCreates
          /\ kube_client = Len(sessions)
          /\ sessions[kube_client] = 0

\* create, destroy, create: the handle holds the second client, still open,
\* and the first one has been closed.
C18_Witness ==
    /\ Len(calls) = 3
    /\ calls[1].op = "create" /\ calls[2].op = "destroy" /\ calls[3].op = "create"
    /\ kube_client = 2
    /\ sessions = <<1, 0>>

====
